---- MODULE Spec2Model ----
(***************************************************************************)
(* Model of the serve-analysis core of AITennisServeAnalysisSystem:        *)
(*   - services/poseService.ts : detectSignalInStream (gesture detector),  *)
(*     cancelSignalDetection, initializePoseLandmarker, analyzeKinematics  *)
(*   - components/LiveRecorder.tsx : the recording controller that         *)
(*     consumes the gesture states                                         *)
(* Coordinates are the normalized image coordinates of the pose model in   *)
(* hundredths (0.35 is 35), so the stillness threshold 0.02 is 2.          *)
(***************************************************************************)
EXTENDS Integers, Sequences, FiniteSets, TLC

\* ------------------------------------------------------------------ bounds

\* Number of detectSignalInStream activations the recorder model can hold.
MaxDetectors == 2
\* Length of the run of idle ticks observed by the edge-triggering scenario.
IdleTicks == 200

\* Largest pose buffer handed to analyzeKinematics.
MaxFrames == 10
\* Number of postures the body goes through in one buffer (a posture is held
\* over consecutive frames).
MaxPostures == 4

\* Length of the video of a collection pass, in playback ticks.
MaxTime == 4

\* Number of concurrent callers of initializePoseLandmarker.
MaxCallers == 3

\* Analysis requests the App can be awaiting at once.
MaxRequests == 2
\* Follow-up questions the App can be awaiting at once.
MaxAsks == 1
\* Longest chat history.
MaxChat == 3
\* MediaRecorders of LiveRecorder whose stop event is still to come.
MaxRecorders == 1
\* Serves kept in the database.
MaxServes == 1

\* --------------------------------------------------------- program constants

STILLNESS_THRESHOLD == 2
STILL_FRAMES_REQUIRED == 120
\* analyzeKinematics: buffers shorter than this give only Serve Start.
MIN_FRAMES == 10
\* The trophy-pose window of the elbow angle, 80 to 130 degrees, as
\* cos(80 deg)^2 and cos(130 deg)^2 in ten-thousandths.
COS2_ANGLE_MIN == 302
COS2_ANGLE_MAX == 4132

\* ------------------------------------------------------------------- values

\* A missing landmark / a null reference.  Points are <<x, y>>.
Null == <<>>

\* results.landmarks is empty: no body detected on this tick.
NoBody == [body |-> FALSE, wristL |-> Null, shoulderL |-> Null,
           wristR |-> Null, shoulderR |-> Null]

Body(wl, sl, wr, sr) == [body |-> TRUE, wristL |-> wl, shoulderL |-> sl,
                         wristR |-> wr, shoulderR |-> sr]

\* Detections fed to one detector activation: the shoulders stay at y = 50;
\* the left wrist is missing, below, level with, or above the shoulder at one
\* of three nearby places (1 and 2 hundredths apart); the right wrist is below
\* or above its shoulder.
LeftWrists == {Null, <<35, 80>>, <<35, 50>>, <<35, 30>>, <<36, 30>>, <<37, 30>>}
RightWrists == {<<65, 80>>, <<65, 30>>}
Poses == {NoBody} \cup
         {Body(wl, <<40, 50>>, wr, <<60, 50>>) : wl \in LeftWrists, wr \in RightWrists}

SignalState == {"idle", "detecting", "locked"}

VARIABLES
    poseLandmarker,     \* module-level poseLandmarker: "null" or "ready"
    detectionFrameId,   \* module-level detectionFrameId: 0 (undefined) or the
                        \* activation that requested the latest animation frame
    det,                \* the detectSignalInStream activations (closure state)
    lr,                 \* the LiveRecorder component
    closure,            \* per activation: the status its handleStateChange captured
    emitted,            \* onStateChange calls made by the last step, in order
    reported,           \* states passed to reportState by the last step
    tickDet,            \* the activation whose detectLoop ran in the last step, or 0
    cancelSeen,         \* activations started before a cancelSignalDetection call
    obs,                \* observer of one activation: runs of ticks, callbacks
    lockedOpen,         \* observer: locked was delivered and no idle since
    poseData,           \* the pose buffer of a collection pass
    keyMoments,         \* the result of analyzeKinematics, NotAnalyzed before
    pass,               \* the processVideoForPose call: its closure, the video
                        \* element, its promise, and what the last step did
    loader,             \* loadMediaPipe's promise, the imports and PoseLandmarker
                        \* instances made, and the initializePoseLandmarker calls
    lookup,             \* the last closest-frame lookup: where, for which time,
                        \* and the index of the frame it returned
    app                 \* the App component: its useState values, the requests
                        \* it awaits, the saved serves and the live recorders

detVars == <<poseLandmarker, detectionFrameId, det, lr, closure, emitted, reported,
             tickDet, cancelSeen, obs, lockedOpen>>

kinVars == <<poseData, keyMoments, pass, loader, lookup, app>>

vars == <<detVars, kinVars>>

Detectors == 1..MaxDetectors

\* The closure state of one activation before detectSignalInStream is called.
FreshDetector == [pc |-> "unstarted", lastWristPos |-> Null,
                  stillFrameCount |-> 0, lastReportedState |-> "idle"]

\* ---------------------------------------------------------- detectLoop

Sq(n) == n * n

\* The squared 2D distance; Math.sqrt is monotone, so distance < t iff
\* DistSq < t * t.
DistSq(a, b) == Sq(a[1] - b[1]) + Sq(a[2] - b[2])

IsStill(wrist, last) == DistSq(wrist, last) < Sq(STILLNESS_THRESHOLD)

\* The raised wrist of a detection, or Null when no hand is raised.
RaisedWrist(pose) ==
    IF ~pose.body THEN Null
    ELSE IF pose.wristL # Null /\ pose.shoulderL # Null
            /\ pose.wristL[2] < pose.shoulderL[2] THEN pose.wristL
    ELSE IF pose.wristR # Null /\ pose.shoulderR # Null
            /\ pose.wristR[2] < pose.shoulderR[2] THEN pose.wristR
    ELSE Null

ReportStateAlways(s, newState) ==
    [last |-> newState, cbs |-> Append(s.cbs, newState)]

\* reportState: the callback is invoked only when the state changes.
\* s is [last |-> lastReportedState, cbs |-> callbacks made so far].
ReportState(s, newState) ==
    IF newState # s.last
    THEN [last |-> newState, cbs |-> Append(s.cbs, newState)]
    ELSE s

StillnessResetToZero(d, raisedWrist) ==
    IF raisedWrist # Null
    THEN IF d.lastWristPos # Null
         THEN IF IsStill(raisedWrist, d.lastWristPos)
              THEN <<d.stillFrameCount + 1, d.lastWristPos>>
              ELSE <<0, raisedWrist>>
         ELSE <<1, raisedWrist>>
    ELSE <<0, Null>>

StillnessFollowsWrist(d, raisedWrist) ==
    IF raisedWrist # Null
    THEN IF d.lastWristPos # Null
         THEN IF IsStill(raisedWrist, d.lastWristPos)
              THEN <<d.stillFrameCount + 1, raisedWrist>>
              ELSE <<1, raisedWrist>>
         ELSE <<1, raisedWrist>>
    ELSE <<0, Null>>

\* The stillness bookkeeping of one tick: the new <<stillFrameCount, lastWristPos>>.
Stillness(d, raisedWrist) ==
    IF raisedWrist # Null
    THEN IF d.lastWristPos # Null
         THEN IF IsStill(raisedWrist, d.lastWristPos)
              THEN <<d.stillFrameCount + 1, d.lastWristPos>>
              ELSE <<1, raisedWrist>>
         ELSE <<1, raisedWrist>>
    ELSE <<0, Null>>

StopsLoopOneEarly(count) == count >= STILL_FRAMES_REQUIRED - 1

\* Whether the tick reports locked.
StopsLoop(count) == count >= STILL_FRAMES_REQUIRED

AfterTickAlwaysScheduled(stop) == "scheduled"

\* Where detectLoop leaves the activation: it returns after locked, and
\* requests the next animation frame otherwise.
AfterTick(stop) == IF stop THEN "stopped" ELSE "scheduled"

\* One run of detectLoop for activation state d on detection pose:
\* the new activation state, the reportState arguments and the callbacks.
DetectLoop(d, pose) ==
    LET raisedWrist == RaisedWrist(pose)
        first == IF raisedWrist # Null THEN "detecting" ELSE "idle"
        r1 == ReportState([last |-> d.lastReportedState, cbs |-> <<>>], first)
        st == Stillness(d, raisedWrist)
        stop == StopsLoop(st[1])
        r2 == IF stop THEN ReportState(r1, "locked") ELSE r1
    IN [d |-> [pc |-> AfterTick(stop),
               lastWristPos |-> st[2],
               stillFrameCount |-> st[1],
               lastReportedState |-> r2.last],
        reported |-> <<first>> \o (IF stop THEN <<"locked">> ELSE <<>>),
        cbs |-> r2.cbs]

\* detectLoop of activation a, as a change of the module state:
\* requestAnimationFrame overwrites detectionFrameId.
RunLoop(dets, fid, a, pose) ==
    LET res == DetectLoop(dets[a], pose)
    IN [det |-> [dets EXCEPT ![a] = res.d],
        fid |-> IF res.d.pc = "scheduled" THEN a ELSE fid,
        cbs |-> res.cbs,
        reported |-> res.reported,
        ticked |-> a]

\* detectSignalInStream(video, onStateChange) for a new activation a.  With
\* the pose model loaded, initializePoseLandmarker returns at once and the
\* first detectLoop runs; otherwise the activation waits for the model.
DetectSignalInStream(dets, fid, landmarker, a, pose) ==
    IF landmarker = "ready"
    THEN RunLoop(dets, fid, a, pose)
    ELSE [det |-> [dets EXCEPT ![a].pc = "init"], fid |-> fid, cbs |-> <<>>,
          reported |-> <<>>, ticked |-> 0]

\* cancelSignalDetection: cancels the frame detectionFrameId names, which
\* has an effect only if that frame is still pending.
CancelFrame(dets, fid) ==
    IF fid # 0 /\ dets[fid].pc = "scheduled"
    THEN [dets EXCEPT ![fid].pc = "cancelled"]
    ELSE dets

Started(dets, a) == dets[a].pc # "unstarted"

\* --------------------------------------------------- analyzeKinematics

\* null in a KeyMoments entry (times are never negative).
NullTime == -1

KeyNames == {"Serve Start", "Toss Peak", "Trophy Pose", "Contact Point"}

\* No result yet.
NotAnalyzed == [none |-> NullTime]

\* The landmarks analyzeKinematics reads: lw = LEFT_WRIST (15),
\* rw = RIGHT_WRIST (16), rs = RIGHT_SHOULDER (12), re = RIGHT_ELBOW (14).
Landmarks(lw, rs, re, rw) == [lw |-> lw, rs |-> rs, re |-> re, rw |-> rw]

\* Frames of a serve: the toss arm up with the hitting arm hanging, the
\* trophy pose (elbow at 90 degrees, wrist above the elbow), and the
\* hitting arm stretched up at contact.
TossShape == Landmarks(<<35, 20>>, <<60, 50>>, <<60, 65>>, <<60, 80>>)
TrophyShape == Landmarks(<<35, 40>>, <<60, 50>>, <<70, 50>>, <<70, 30>>)
ContactShape == Landmarks(<<35, 40>>, <<60, 50>>, <<62, 35>>, <<64, 10>>)
Shapes == {TossShape, TrophyShape, ContactShape}

\* Frames the trophy test has to skip: one with the left wrist and the
\* right shoulder missing, one with the right wrist on the elbow (a
\* zero-length arm vector).
NoJointShape == Landmarks(Null, Null, <<70, 50>>, <<70, 30>>)
ZeroArmShape == Landmarks(<<35, 40>>, <<60, 50>>, <<70, 50>>, <<70, 50>>)
SkipShapes == {NoJointShape, ZeroArmShape, TrophyShape}

\* Frames around the edges of the trophy test, the upper arm pointing from
\* the elbow (70,50) to the shoulder (60,50): the toss arm up with the
\* elbow at about 132 degrees; the elbow at about 79 degrees; the elbow at
\* 90 degrees with the wrist below it; the elbow at about 129 degrees with
\* the wrist above it, which alone passes the test.
WideTossShape == Landmarks(<<35, 20>>, <<60, 50>>, <<70, 50>>, <<79, 40>>)
NarrowShape == Landmarks(<<35, 40>>, <<60, 50>>, <<70, 50>>, <<68, 40>>)
LowWristShape == Landmarks(<<35, 40>>, <<60, 50>>, <<70, 50>>, <<70, 70>>)
EdgeTrophyShape == Landmarks(<<35, 40>>, <<60, 50>>, <<70, 50>>, <<78, 40>>)
EdgeShapes == {WideTossShape, NarrowShape, LowWristShape, EdgeTrophyShape}

\* video.duration values passed along with the buffer.
Durations == {1, 30}

\* The toss-peak loop from frame i on: best is the index of tossPeakFrame
\* (0 for null, whose y reads as Infinity); a frame replaces it only when
\* its left wrist is strictly higher.  Frames are distinct objects, so
\* poseData.indexOf(tossPeakFrame) is the index the loop found.
TossHigherOrEqual(y, bestY) == y <= bestY

\* leftWrist.y < tossPeakFrame.landmarks[LEFT_WRIST].y
TossHigher(y, bestY) == y < bestY

RECURSIVE TossPeakScan(_, _, _)
TossPeakScan(buf, i, best) ==
    IF i > Len(buf) THEN best
    ELSE LET leftWrist == buf[i].landmarks.lw
         IN TossPeakScan(buf, i + 1,
                IF leftWrist # Null
                   /\ (best = 0 \/ TossHigher(leftWrist[2], buf[best].landmarks.lw[2]))
                THEN i ELSE best)

\* angleDeg > 80 && angleDeg < 130: acos is decreasing, so the angle is
\* above 80 degrees iff cos < cos(80 deg) and below 130 degrees iff
\* cos > cos(130 deg), compared through the squares.
AngleInWindow(dot, m1sq, m2sq) ==
    /\ (dot <= 0 \/ Sq(dot) * 10000 < COS2_ANGLE_MIN * m1sq * m2sq)
    /\ (dot >= 0 \/ Sq(dot) * 10000 < COS2_ANGLE_MAX * m1sq * m2sq)

IsTrophyPoseAnyWrist(f) ==
    LET v1 == <<f.landmarks.rw[1] - f.landmarks.re[1], f.landmarks.rw[2] - f.landmarks.re[2]>>
        v2 == <<f.landmarks.rs[1] - f.landmarks.re[1], f.landmarks.rs[2] - f.landmarks.re[2]>>
    IN AngleInWindow(v1[1] * v2[1] + v1[2] * v2[2],
                     Sq(v1[1]) + Sq(v1[2]), Sq(v2[1]) + Sq(v2[2]))

\* Whether the trophy loop takes frame f.
IsTrophyPose(f) ==
    LET rShoulder == f.landmarks.rs
        rElbow == f.landmarks.re
        rWrist == f.landmarks.rw
    IN /\ rShoulder # Null /\ rElbow # Null /\ rWrist # Null
       /\ LET v1 == <<rWrist[1] - rElbow[1], rWrist[2] - rElbow[2]>>
              v2 == <<rShoulder[1] - rElbow[1], rShoulder[2] - rElbow[2]>>
              dot == v1[1] * v2[1] + v1[2] * v2[2]
              m1sq == Sq(v1[1]) + Sq(v1[2])
              m2sq == Sq(v2[1]) + Sq(v2[2])
          IN /\ m1sq # 0 /\ m2sq # 0
             /\ AngleInWindow(dot, m1sq, m2sq)
             /\ rWrist[2] < rElbow[2]

RECURSIVE TrophyScan(_, _)

SkipFrameAborts(buf, i) == 0

\* A frame the trophy test does not take (a joint missing, `continue` on a
\* zero-length arm vector, or the angle test failing): the loop goes on
\* with the next frame.
SkipFrame(buf, i) == TrophyScan(buf, i + 1)

\* The trophy loop from frame i on: the first frame taken, 0 for none.
TrophyScan(buf, i) ==
    IF i > Len(buf) THEN 0
    ELSE IF IsTrophyPose(buf[i]) THEN i
    ELSE SkipFrame(buf, i)

TrophyStartAtZero(tossPeakIndex) == 1

\* Where the trophy loop starts: at tossPeakIndex.
TrophyStart(tossPeakIndex) == tossPeakIndex

\* The contact loop from frame i on: best is the index of
\* contactPointFrame (0 for null); a frame replaces it only when its right
\* wrist is strictly higher.
ContactHigherOrEqual(y, bestY) == y <= bestY

\* rightWrist.y < contactPointFrame.landmarks[RIGHT_WRIST].y
ContactHigher(y, bestY) == y < bestY

RECURSIVE ContactScan(_, _, _)
ContactScan(buf, i, best) ==
    IF i > Len(buf) THEN best
    ELSE LET rightWrist == buf[i].landmarks.rw
         IN ContactScan(buf, i + 1,
                IF rightWrist # Null
                   /\ (best = 0 \/ ContactHigher(rightWrist[2], buf[best].landmarks.rw[2]))
                THEN i ELSE best)

\* Indices (1-based, 0 for -1) of the frames the three passes find.
TossPeakIndex(buf) == TossPeakScan(buf, 1, 0)

TrophyPoseIndex(buf) ==
    IF TossPeakIndex(buf) # 0 THEN TrophyScan(buf, TrophyStart(TossPeakIndex(buf)))
    ELSE 0

ContactPointIndex(buf) ==
    IF TrophyPoseIndex(buf) # 0 THEN ContactScan(buf, TrophyPoseIndex(buf), 0)
    ELSE 0

TimeAt(buf, i) == IF i # 0 THEN buf[i].time ELSE NullTime

ServeStartZero(buf) == 0

\* serveStartFrame = poseData[0]; 'Serve Start': serveStartFrame.time
ServeStartTime(buf) == buf[1].time

TooShortOffByOne(buf) == Len(buf) < MIN_FRAMES - 1

\* poseData.length < 10
TooShort(buf) == Len(buf) < MIN_FRAMES

WithinDuration(t, duration) == IF t > duration THEN NullTime ELSE t

AnalyzeKinematicsWithinDuration(buf, duration) ==
    IF TooShort(buf)
    THEN ("Serve Start" :> (IF Len(buf) > 0 THEN buf[1].time ELSE 0))
         @@ ("Toss Peak" :> NullTime)
         @@ ("Trophy Pose" :> NullTime)
         @@ ("Contact Point" :> NullTime)
    ELSE ("Serve Start" :> ServeStartTime(buf))
         @@ ("Toss Peak" :> WithinDuration(TimeAt(buf, TossPeakIndex(buf)), duration))
         @@ ("Trophy Pose" :> WithinDuration(TimeAt(buf, TrophyPoseIndex(buf)), duration))
         @@ ("Contact Point" :> WithinDuration(TimeAt(buf, ContactPointIndex(buf)), duration))

\* analyzeKinematics(poseData, duration)
AnalyzeKinematics(buf, duration) ==
    IF TooShort(buf)
    THEN ("Serve Start" :> (IF Len(buf) > 0 THEN buf[1].time ELSE 0))
         @@ ("Toss Peak" :> NullTime)
         @@ ("Trophy Pose" :> NullTime)
         @@ ("Contact Point" :> NullTime)
    ELSE ("Serve Start" :> ServeStartTime(buf))
         @@ ("Toss Peak" :> TimeAt(buf, TossPeakIndex(buf)))
         @@ ("Trophy Pose" :> TimeAt(buf, TrophyPoseIndex(buf)))
         @@ ("Contact Point" :> TimeAt(buf, ContactPointIndex(buf)))

\* ------------------------------------------------- observers of the ticks

\* -------------------------------------------------- processVideoForPose

\* Values of video.duration that are not a number of ticks: NaN before the
\* metadata of the video has loaded, Infinity for a recording without a
\* duration in its header.
NaN == -1
Infinity == -2

\* (currentTime / duration) * 100, in whole percent.
Progress(currentTime, duration) ==
    IF duration = NaN THEN NaN
    ELSE IF duration = Infinity THEN 0
    ELSE (currentTime * 100) \div duration

AdvancedOrEqual(currentTime, lastTime) == currentTime >= lastTime

AdvancedAlways(currentTime, lastTime) == TRUE

\* currentTime > lastTime
Advanced(currentTime, lastTime) == currentTime > lastTime

FrameProgressIfBody(body, currentTime, duration) ==
    IF body THEN <<Progress(currentTime, duration)>> ELSE <<>>

\* The setProgress calls of a processed frame: one, after the detection,
\* whether or not a body was detected.
FrameProgress(body, currentTime, duration) == <<Progress(currentTime, duration)>>

\* What a step did: whether processFrame ran and completed the pass, the
\* playback time and lastTime it saw, its detectForVideo calls, whether
\* the detection had a body, and the values it passed to setProgress.
Quiet == [ran |-> FALSE, completed |-> FALSE, time |-> 0, lastBefore |-> 0,
          detects |-> 0, body |-> FALSE, progress |-> <<>>]

\* No call of processVideoForPose yet.  pc: "none", "init" (awaiting
\* initializePoseLandmarker), "loading" (waiting for canplaythrough),
\* "starting" (video.play() pending), "scheduled" (processFrame requested
\* as animation frame), "stopped" (processFrame returned without a new
\* request), "failed" (the loop never started).
NoPass == [pc |-> "none", promise |-> "pending", resolves |-> 0, result |-> <<>>,
           duration |-> NaN, lastTime |-> -1, onerror |-> FALSE,
           currentTime |-> 0, paused |-> TRUE, ended |-> FALSE, error |-> FALSE,
           lastProgress |-> <<>>, out |-> Quiet]

\* The values video.duration can have when processVideoForPose reads it:
\* the length of the video, Infinity, and NaN while the video has no
\* metadata yet (readyState below 4).
VideoDurations(ready) ==
    IF ready THEN {MaxTime, Infinity} ELSE {MaxTime, Infinity, NaN}

\* resolve or reject of a promise: only the first settles it.
Settle(promise, outcome) == IF promise = "pending" THEN outcome ELSE promise

\* processFrame on a paused or ended video: setProgress(100), video.pause(),
\* resolve(poseData), and no new animation frame.
Complete(ps, buf) ==
    [ps EXCEPT !.pc = "stopped",
               !.promise = Settle(ps.promise, "resolved"),
               !.resolves = ps.resolves + 1,
               !.result = IF ps.promise = "pending" THEN buf ELSE ps.result,
               !.paused = TRUE,
               !.lastProgress = <<100>>,
               !.out = [Quiet EXCEPT !.ran = TRUE, !.completed = TRUE,
                                     !.time = ps.currentTime,
                                     !.lastBefore = ps.lastTime,
                                     !.progress = <<100>>]]

\* processFrame on a playing video: a frame whose time has advanced is
\* detected and reported, and the next animation frame is requested.
Collect(ps, body) ==
    IF Advanced(ps.currentTime, ps.lastTime)
    THEN LET reports == FrameProgress(body, ps.currentTime, ps.duration)
         IN [ps EXCEPT !.lastTime = ps.currentTime,
                       !.lastProgress = IF reports = <<>> THEN ps.lastProgress
                                        ELSE <<reports[Len(reports)]>>,
                       !.out = [Quiet EXCEPT !.ran = TRUE,
                                             !.time = ps.currentTime,
                                             !.lastBefore = ps.lastTime,
                                             !.detects = 1,
                                             !.body = body,
                                             !.progress = reports]]
    ELSE [ps EXCEPT !.out = [Quiet EXCEPT !.ran = TRUE,
                                          !.time = ps.currentTime,
                                          !.lastBefore = ps.lastTime]]

\* poseData after processFrame: a detected body is pushed with the
\* playback time.
Pushed(ps, buf, body, landmarks) ==
    IF Advanced(ps.currentTime, ps.lastTime) /\ body
    THEN Append(buf, [time |-> ps.currentTime, landmarks |-> landmarks])
    ELSE buf

\* ---------------------------------------------- initializePoseLandmarker

Callers == 1..MaxCallers

\* Nothing loaded: loadMediaPipe's promise is null, no import and no
\* PoseLandmarker made, no call of initializePoseLandmarker in progress.
\* A call is "idle", "awaitLoad" (await loadMediaPipe()), "awaitFileset"
\* (await FilesetResolver.forVisionTasks), "awaitCreate" (await
\* PoseLandmarker.createFromOptions), "returned" or "threw".
NoLoader == [promise |-> "null", imports |-> 0, created |-> 0,
             call |-> [c \in Callers |-> "idle"]]

\* loadMediaPipe(): the import is started only when there is no promise yet.
LoadMediaPipe(ld) ==
    IF ld.promise = "null"
    THEN [ld EXCEPT !.promise = "pending", !.imports = ld.imports + 1]
    ELSE ld

\* ------------------------------------------------- closest-frame lookups

Abs(n) == IF n < 0 THEN 0 - n ELSE n

CloserOrEqual(curr, prev, time) == Abs(curr.time - time) <= Abs(prev.time - time)

\* Math.abs(curr.time - time) < Math.abs(prev.time - time)
Closer(curr, prev, time) == Abs(curr.time - time) < Abs(prev.time - time)

\* poseData.reduce((prev, curr) => closer ? curr : prev) from frame i on,
\* prev being the index of the accumulator; without an initial value the
\* reduction starts with the first frame as accumulator.
RECURSIVE Reduce(_, _, _, _)
Reduce(buf, i, prev, time) ==
    IF i > Len(buf) THEN prev
    ELSE Reduce(buf, i + 1, IF Closer(buf[i], buf[prev], time) THEN i ELSE prev, time)

\* The index of closestFrame for a non-empty buffer.
ClosestFrame(buf, time) == Reduce(buf, 2, 1, time)

NoLookup == [site |-> "none", time |-> 0, frame |-> 0]

\* ------------------------------------------------------- the App component

\* Video files by content; "null" is no file.
Files == {"a", "b"}
\* What the URL field can hold: nothing, a YouTube watch URL, other text.
Urls == {"", "watch", "junk"}
\* What an analysis request analyses; a report is named by its source.
Sources == Files \cup {"url"}

\* getYouTubeId: the 11-character id of a URL the pattern matches, else null.
GetYouTubeId(url) == IF url = "watch" THEN "id" ELSE "null"

\* The useState initial values; nothing awaited, nothing saved.
AppInit ==
    [videoFile |-> "null", youtubeUrl |-> "", youtubeVideoId |-> "null",
     analysisResult |-> "null", poseData |-> "null", isLoading |-> FALSE,
     isRecording |-> FALSE, error |-> "null", isHistoryOpen |-> FALSE,
     chatHistory |-> <<>>, isChatLoading |-> FALSE,
     requests |-> [s \in Sources |-> 0], asks |-> 0, serves |-> {},
     recorders |-> 0]

\* renderContent: the one component the App mounts below the header.
RenderContent(a) ==
    IF a.isRecording THEN "LiveRecorder"
    ELSE IF a.isLoading THEN "Loader"
    ELSE IF a.error # "null" THEN "error"
    ELSE IF a.analysisResult # "null" THEN "AnalysisReport"
    ELSE IF a.youtubeVideoId # "null" THEN "YouTubePlayer"
    ELSE "FileUpload"

\* handleFileSelect with the URL left as it is.
HandleFileSelectKeepsUrl(a, file) ==
    [a EXCEPT !.videoFile = file,
              !.analysisResult = "null", !.error = "null", !.poseData = "null"]

\* handleFileSelect(file)
HandleFileSelect(a, file) ==
    [a EXCEPT !.videoFile = file,
              !.youtubeUrl = IF file # "null" THEN "" ELSE @,
              !.analysisResult = "null", !.error = "null", !.poseData = "null"]

\* Requests the App is awaiting.
InFlight(a) == a.requests["a"] + a.requests["b"] + a.requests["url"]

Min(a, b) == IF a < b THEN a ELSE b

NoRun == [len |-> 0, pos |-> Null, start |-> "none", after119 |-> FALSE,
          wobble |-> FALSE]

NoObs == [tickKind |-> "none", run |-> NoRun, idle |-> [len |-> 0, cbs |-> 0],
          lastCb |-> "none", lockedCbs |-> 0]

\* What a tick is for the run of qualifying ticks that precedes it: "idle"
\* (no hand raised), "first" (raised, no run before it), "still" (raised,
\* less than the threshold away from the run's first position) or "moved".
KindOfTick(r, pose) ==
    LET w == RaisedWrist(pose)
    IN IF w = Null THEN "idle"
       ELSE IF r.len = 0 THEN "first"
       ELSE IF DistSq(w, r.pos) < Sq(STILLNESS_THRESHOLD) THEN "still"
       ELSE "moved"

\* The run of consecutive qualifying ticks after a tick: its length, the
\* position of its first tick, how it started, whether the tick that
\* started it ended a run of STILL_FRAMES_REQUIRED - 1 ticks, and whether
\* the wrist was ever off the first position during the run.
RunAfter(r, pose) ==
    LET k == KindOfTick(r, pose)
    IN IF k = "idle" THEN NoRun
       ELSE IF k = "still"
            THEN [r EXCEPT !.len = Min(r.len + 1, STILL_FRAMES_REQUIRED + 1),
                           !.wobble = r.wobble \/ RaisedWrist(pose) # r.pos]
            ELSE [len |-> 1, pos |-> RaisedWrist(pose), start |-> k,
                  after119 |-> (r.len = STILL_FRAMES_REQUIRED - 1),
                  wobble |-> FALSE]

Count(seq, x) == Cardinality({i \in DOMAIN seq : seq[i] = x})

\* The run of consecutive idle ticks after a tick, up to IdleTicks of them,
\* and the number of idle callbacks those ticks made.
IdleAfter(o, pose, cbs) ==
    IF RaisedWrist(pose) # Null THEN [len |-> 0, cbs |-> 0]
    ELSE IF o.len >= IdleTicks THEN o
    ELSE [len |-> o.len + 1, cbs |-> o.cbs + Count(cbs, "idle")]

\* The observer after a step of the activation it watches.
Observe(o, r, pose) ==
    IF r.ticked = 0 THEN [o EXCEPT !.tickKind = "none"]
    ELSE [tickKind |-> KindOfTick(o.run, pose),
          run |-> RunAfter(o.run, pose),
          idle |-> IdleAfter(o.idle, pose, r.cbs),
          lastCb |-> IF r.cbs = <<>> THEN o.lastCb ELSE r.cbs[Len(r.cbs)],
          lockedCbs |-> Min(o.lockedCbs + Count(r.cbs, "locked"), 3)]

\* ------------------------------------- one activation of the detector

\* The module state after a step r of the detector.
Apply(r) ==
    /\ det' = r.det
    /\ detectionFrameId' = r.fid
    /\ emitted' = r.cbs
    /\ reported' = r.reported
    /\ tickDet' = r.ticked

NoTick(dets) == [det |-> dets, fid |-> detectionFrameId, cbs |-> <<>>,
                 reported |-> <<>>, ticked |-> 0]

InitDet ==
    /\ keyMoments = NotAnalyzed
    /\ poseLandmarker \in {"null", "ready"}
    /\ detectionFrameId = 0
    /\ det = [a \in Detectors |-> FreshDetector]
    /\ lr = [status |-> "initializing", signalState |-> "idle",
             mounted |-> FALSE, effect |-> "none", recorders |-> <<>>, stops |-> <<>>]
    /\ closure = [a \in Detectors |-> "none"]
    /\ emitted = <<>>
    /\ reported = <<>>
    /\ tickDet = 0
    /\ cancelSeen = {}
    /\ obs = NoObs
    /\ lockedOpen = FALSE
    /\ poseData = <<>>
    /\ pass = NoPass
    /\ loader = NoLoader
    /\ lookup = NoLookup
    /\ app = AppInit

\* A caller starts the activation.
Start(pose) ==
    /\ det[1].pc = "unstarted"
    /\ LET r == DetectSignalInStream(det, detectionFrameId, poseLandmarker, 1, pose)
       IN Apply(r) /\ obs' = Observe(obs, r, pose)
    /\ UNCHANGED <<poseLandmarker, lr, closure, cancelSeen, lockedOpen, kinVars>>

\* initializePoseLandmarker resolves: the model is created, the first
\* detectLoop runs.
InitOk(pose) ==
    /\ det[1].pc = "init"
    /\ poseLandmarker' = "ready"
    /\ LET r == RunLoop(det, detectionFrameId, 1, pose)
       IN Apply(r) /\ obs' = Observe(obs, r, pose)
    /\ UNCHANGED <<lr, closure, cancelSeen, lockedOpen, kinVars>>

\* initializePoseLandmarker throws: the await in detectSignalInStream
\* rethrows, so the promise of detectSignalInStream rejects.
InitFail ==
    /\ det[1].pc = "init"
    /\ Apply(NoTick([det EXCEPT ![1].pc = "rejected"]))
    /\ obs' = [obs EXCEPT !.tickKind = "none"]
    /\ UNCHANGED <<poseLandmarker, lr, closure, cancelSeen, lockedOpen, kinVars>>

\* The animation frame requested by the activation fires.
Tick(pose) ==
    /\ det[1].pc = "scheduled"
    /\ LET r == RunLoop(det, detectionFrameId, 1, pose)
       IN Apply(r) /\ obs' = Observe(obs, r, pose)
    /\ UNCHANGED <<poseLandmarker, lr, closure, cancelSeen, lockedOpen, kinVars>>

\* The caller cancels: cancelSignalDetection().
Cancel ==
    /\ Started(det, 1)
    /\ Apply(NoTick(CancelFrame(det, detectionFrameId)))
    /\ cancelSeen' = cancelSeen \cup {a \in Detectors : Started(det, a)}
    /\ obs' = [obs EXCEPT !.tickKind = "none"]
    /\ UNCHANGED <<poseLandmarker, lr, closure, lockedOpen, kinVars>>

NextDet ==
    \/ \E pose \in Poses : Start(pose)
    \/ \E pose \in Poses : InitOk(pose)
    \/ InitFail
    \/ \E pose \in Poses : Tick(pose)
    \/ Cancel

SpecDet == InitDet /\ [][NextDet]_vars

\* ---------------------------------------- properties of one activation

Range(seq) == {seq[i] : i \in DOMAIN seq}

\* The members of seq that differ from the state reported just before them,
\* prev being the state reported before seq.
RECURSIVE Changes(_, _)
Changes(prev, seq) ==
    IF seq = <<>> THEN <<>>
    ELSE (IF seq[1] # prev THEN <<seq[1]>> ELSE <<>>) \o Changes(seq[1], Tail(seq))

\* C1: within one activation the callback is edge-triggered: the callbacks a
\* step makes are exactly the reported states that differ from the state
\* reported before them, and no callback carries the state of the callback
\* before it.
C1_EdgeTriggered ==
    [][/\ emitted' = Changes(det[1].lastReportedState, reported')
       /\ (emitted' # <<>> => emitted'[1] # obs.lastCb)
       /\ \A i \in 1..(Len(emitted') - 1) : emitted'[i] # emitted'[i + 1]]_vars

\* C1 witness: a tick reported detecting again and made no callback.
C1_Witness ==
    /\ tickDet = 1
    /\ reported = <<"detecting">>
    /\ emitted = <<>>
    /\ obs.lastCb = "detecting"

\* C2: locked is reported at most once, and once it is reported the
\* activation runs no further tick, requests no frame and makes no callback.
C2_LockedTerminal ==
    [][/\ obs'.lockedCbs <= 1
       /\ (det[1].lastReportedState = "locked"
             => /\ det'[1] = det[1]
                /\ emitted' = <<>>
                /\ tickDet' = 0
                /\ detectionFrameId' = detectionFrameId)]_vars

\* C2 witness: locked was reported, the loop has stopped, and the caller
\* has acted since.
C2_Witness ==
    /\ det[1].lastReportedState = "locked"
    /\ det[1].pc = "stopped"
    /\ obs.lockedCbs = 1
    /\ tickDet = 0

\* C3: a tick reports locked exactly when it completes a run of
\* STILL_FRAMES_REQUIRED consecutive qualifying ticks (raised, and from the
\* second on less than the threshold away from the run's first position).
C3_LockedAtRequiredRun ==
    /\ obs.run.len <= STILL_FRAMES_REQUIRED
    /\ (tickDet # 0 =>
          (("locked" \in Range(emitted)) <=> (obs.run.len = STILL_FRAMES_REQUIRED)))

\* C3 witness: the tick that completes the run reports locked.
C3_Witness ==
    /\ tickDet = 1
    /\ "locked" \in Range(emitted)
    /\ obs.run.len = STILL_FRAMES_REQUIRED
    /\ obs.run.start = "first"

\* C4 as stated: a moved tick after 119 stationary ticks does not lock and
\* resets the counter, and at least 120 stationary ticks follow the moved
\* tick before locked is reported.
C4_Needs120AfterMove ==
    /\ (obs.tickKind = "moved" => "locked" \notin Range(emitted))
    /\ (tickDet # 0 /\ "locked" \in Range(emitted) /\ obs.run.start = "moved"
          => obs.run.len - 1 >= STILL_FRAMES_REQUIRED)

\* C4 amended: a moved tick does not lock and resets the counter to 1 (it
\* is the first tick of the new run), so locked is reported after exactly
\* STILL_FRAMES_REQUIRED - 1 further consecutive stationary ticks.
C4_Needs119AfterMove ==
    /\ (obs.tickKind = "moved"
          => /\ "locked" \notin Range(emitted)
             /\ det[1].stillFrameCount = 1
             /\ det[1].pc = "scheduled")
    /\ (tickDet # 0 /\ "locked" \in Range(emitted) /\ obs.run.start = "moved"
          => obs.run.len - 1 = STILL_FRAMES_REQUIRED - 1)

\* C4 witness: 119 stationary ticks, a moved tick, and locked reported
\* after the stationary ticks that followed it.
C4_Witness ==
    /\ tickDet = 1
    /\ "locked" \in Range(emitted)
    /\ obs.run.start = "moved"
    /\ obs.run.after119

\* C24: a raised tick less than the threshold away from the remembered
\* position increments the counter and leaves the remembered position, the
\* position of the first tick of the run, unchanged; and when locked is
\* reported the run has STILL_FRAMES_REQUIRED ticks, each less than the
\* threshold away from the position of its first tick.
C24_AnchoredRun ==
    [][/\ (tickDet' = 1 /\ obs'.tickKind = "still") =>
             /\ det'[1].lastWristPos = det[1].lastWristPos
             /\ det'[1].lastWristPos = obs'.run.pos
             /\ det'[1].stillFrameCount = det[1].stillFrameCount + 1
       /\ (tickDet' = 1 /\ "locked" \in Range(emitted')) =>
             /\ obs'.run.len = STILL_FRAMES_REQUIRED
             /\ det'[1].lastWristPos = obs'.run.pos]_vars

\* C24 witness: locked is reported for a run during which the wrist was
\* off the position of the first tick, by less than the threshold.
C24_Witness ==
    /\ tickDet = 1
    /\ "locked" \in Range(emitted)
    /\ obs.run.wobble

\* C5: IdleTicks idle ticks in a row make exactly one idle callback.
C5_OneIdleCallback ==
    obs.idle.len = IdleTicks => obs.idle.cbs = 1

\* C7: after cancelSignalDetection is called, no activation started before
\* the call runs detectLoop again.
C7_NoTickAfterCancel ==
    tickDet # 0 => tickDet \notin cancelSeen

\* C8: when the pose model cannot be created the reported state is idle,
\* locked is never reported and the promise of detectSignalInStream does
\* not reject.
C8_UnavailableIsIdle ==
    \A a \in Detectors :
        (Started(det, a) /\ poseLandmarker = "null")
            => /\ det[a].lastReportedState = "idle"
               /\ det[a].pc # "rejected"

\* ------------------------------------------------------- LiveRecorder

\* Detections fed to the detectors that the recorder starts.
RecPoses == {NoBody, Body(<<35, 30>>, <<40, 50>>, <<65, 80>>, <<60, 50>>)}

\* The outcomes of creating and starting a MediaRecorder that a step with
\* callbacks cbs can see: it succeeds or it fails (unsupported type, or the
\* constructor or start() throws).
Outcomes(captured, cbs) ==
    IF captured = "waiting_for_start_signal" /\ \E i \in DOMAIN cbs : cbs[i] = "locked"
    THEN BOOLEAN ELSE {TRUE}

\* setStatus: a state update of an unmounted component is dropped.
SetStatus(l, s) == IF l.mounted THEN [l EXCEPT !.status = s] ELSE l

LastRecorderAnyState(l) == l.recorders # <<>>

\* mediaRecorderRef.current && mediaRecorderRef.current.state === 'recording'
LastRecording(l) ==
    l.recorders # <<>> /\ l.recorders[Len(l.recorders)] = "recording"

\* mediaRecorderRef.current.stop(): the recorder stops recording and its
\* stop event is queued; stops counts the stop() calls made on it.
StopLast(l) ==
    [l EXCEPT !.recorders[Len(l.recorders)] = "stopping",
              !.stops[Len(l.recorders)] = Min(@ + 1, 2)]

\* handleStateChange(newState) of the effect run that captured status
\* `captured`; ok says whether the MediaRecorder could be created and started.
HandleStateChange(l, captured, newState, ok) ==
    LET l1 == IF l.mounted THEN [l EXCEPT !.signalState = newState] ELSE l
    IN IF newState # "locked" THEN l1
       ELSE IF captured = "waiting_for_start_signal"
            THEN IF ok
                 THEN SetStatus([l1 EXCEPT !.recorders = Append(@, "recording"),
                                           !.stops = Append(@, 0)],
                                "recording")
                 ELSE SetStatus(l1, "error")
       ELSE IF captured = "recording" /\ LastRecording(l1)
            THEN StopLast(l1)
       ELSE l1

\* The callbacks of one step, handled in order.
RECURSIVE HandleAll(_, _, _, _)
HandleAll(l, captured, cbs, ok) ==
    IF cbs = <<>> THEN l
    ELSE HandleAll(HandleStateChange(l, captured, cbs[1], ok), captured, Tail(cbs), ok)

\* Whether locked is still the latest of locked and idle after the callbacks.
RECURSIVE OpenAfter(_, _)
OpenAfter(open, cbs) ==
    IF cbs = <<>> THEN open
    ELSE OpenAfter(IF cbs[1] = "locked" THEN TRUE
                   ELSE IF cbs[1] = "idle" THEN FALSE ELSE open, Tail(cbs))

\* Whether the callbacks deliver locked while an earlier locked is still the
\* latest of locked and idle.
RECURSIVE SecondLocked(_, _)
SecondLocked(open, cbs) ==
    IF cbs = <<>> THEN FALSE
    ELSE (cbs[1] = "locked" /\ open) \/ SecondLocked(OpenAfter(open, <<cbs[1]>>), Tail(cbs))

FreeSlots == {a \in Detectors : det[a].pc = "unstarted"}

Active(s) == s \in {"waiting_for_start_signal", "recording"}

InitRec ==
    /\ poseLandmarker \in {"null", "ready"}
    /\ detectionFrameId = 0
    /\ det = [a \in Detectors |-> FreshDetector]
    /\ lr = [status |-> "initializing", signalState |-> "idle",
             mounted |-> TRUE, effect |-> "initializing", recorders |-> <<>>, stops |-> <<>>]
    /\ closure = [a \in Detectors |-> "none"]
    /\ emitted = <<>>
    /\ reported = <<>>
    /\ tickDet = 0
    /\ cancelSeen = {}
    /\ obs = NoObs
    /\ lockedOpen = FALSE
    /\ poseData = <<>>
    /\ keyMoments = NotAnalyzed
    /\ pass = NoPass
    /\ loader = NoLoader
    /\ lookup = NoLookup
    /\ app = AppInit

\* setupStream: getUserMedia resolves and the video's metadata loads.
StreamReady ==
    /\ lr.mounted /\ lr.status = "initializing"
    /\ lr' = [lr EXCEPT !.status = "waiting_for_start_signal"]
    /\ Apply(NoTick(det))
    /\ UNCHANGED <<poseLandmarker, closure, cancelSeen, obs, lockedOpen, kinVars>>

\* setupStream: getUserMedia rejects.
StreamFail ==
    /\ lr.mounted /\ lr.status = "initializing"
    /\ lr' = [lr EXCEPT !.status = "error"]
    /\ Apply(NoTick(det))
    /\ UNCHANGED <<poseLandmarker, closure, cancelSeen, obs, lockedOpen, kinVars>>

\* The gesture effect runs again (status changed, or the parent rendered
\* and passed a new onRecordingComplete): the cleanup of the previous run
\* calls cancelSignalDetection, then the body starts a new activation when
\* the status is waiting_for_start_signal or recording.
GestureEffect(pose) ==
    /\ lr.mounted
    /\ Active(lr.effect) \/ Active(lr.status)
    /\ Active(lr.status) => FreeSlots # {}
    /\ LET cleaned == IF Active(lr.effect) THEN CancelFrame(det, detectionFrameId)
                      ELSE det
           a == CHOOSE x \in FreeSlots : \A y \in FreeSlots : x <= y
           r == IF Active(lr.status)
                THEN DetectSignalInStream(cleaned, detectionFrameId,
                                          poseLandmarker, a, pose)
                ELSE NoTick(cleaned)
       IN /\ Apply(r)
          /\ closure' = IF Active(lr.status)
                         THEN [closure EXCEPT ![a] = lr.status] ELSE closure
          /\ \E ok \in Outcomes(lr.status, r.cbs) :
                lr' = HandleAll([lr EXCEPT !.effect = lr.status], lr.status, r.cbs, ok)
          /\ lockedOpen' = OpenAfter(lockedOpen, r.cbs)
          /\ cancelSeen' = IF Active(lr.effect)
                            THEN cancelSeen \cup {x \in Detectors : Started(det, x)}
                            ELSE cancelSeen
    /\ UNCHANGED <<poseLandmarker, obs, kinVars>>

\* initializePoseLandmarker resolves for activation a.
DetInitOk(a, pose) ==
    /\ det[a].pc = "init"
    /\ poseLandmarker' = "ready"
    /\ LET r == RunLoop(det, detectionFrameId, a, pose)
       IN /\ Apply(r)
          /\ \E ok \in Outcomes(closure[a], r.cbs) :
                lr' = HandleAll(lr, closure[a], r.cbs, ok)
          /\ lockedOpen' = OpenAfter(lockedOpen, r.cbs)
    /\ UNCHANGED <<closure, cancelSeen, obs, kinVars>>

\* initializePoseLandmarker throws for activation a.
DetInitFail(a) ==
    /\ det[a].pc = "init"
    /\ Apply(NoTick([det EXCEPT ![a].pc = "rejected"]))
    /\ UNCHANGED <<poseLandmarker, lr, closure, cancelSeen, obs, lockedOpen, kinVars>>

\* The animation frame of activation a fires.
DetTick(a, pose) ==
    /\ det[a].pc = "scheduled"
    /\ LET r == RunLoop(det, detectionFrameId, a, pose)
       IN /\ Apply(r)
          /\ \E ok \in Outcomes(closure[a], r.cbs) :
                lr' = HandleAll(lr, closure[a], r.cbs, ok)
          /\ lockedOpen' = OpenAfter(lockedOpen, r.cbs)
    /\ UNCHANGED <<poseLandmarker, closure, cancelSeen, obs, kinVars>>

\* The 15-second timeout of the recording status fires.
TimeoutStop ==
    /\ lr.mounted /\ lr.status = "recording"
    /\ LastRecording(lr)
    /\ lr' = StopLast(lr)
    /\ Apply(NoTick(det))
    /\ UNCHANGED <<poseLandmarker, closure, cancelSeen, obs, lockedOpen, kinVars>>

\* recorder.onstop: cleanup(), then onRecordingComplete(file), on which the
\* parent unmounts the recorder, running the effects' cleanups.
RecorderOnStop(i) ==
    /\ i \in DOMAIN lr.recorders
    /\ lr.recorders[i] = "stopping"
    /\ lr' = [lr EXCEPT !.recorders[i] = "stopped", !.mounted = FALSE]
    /\ Apply(NoTick(CancelFrame(det, detectionFrameId)))
    /\ cancelSeen' = cancelSeen \cup {x \in Detectors : Started(det, x)}
    /\ UNCHANGED <<poseLandmarker, closure, obs, lockedOpen, kinVars>>

\* The user presses Cancel Recording: the parent unmounts the recorder and
\* the effects' cleanups call cancelSignalDetection.
Unmount ==
    /\ lr.mounted
    /\ lr' = [lr EXCEPT !.mounted = FALSE]
    /\ Apply(NoTick(CancelFrame(det, detectionFrameId)))
    /\ cancelSeen' = cancelSeen \cup {x \in Detectors : Started(det, x)}
    /\ UNCHANGED <<poseLandmarker, closure, obs, lockedOpen, kinVars>>

Next ==
    \/ StreamReady
    \/ StreamFail
    \/ \E pose \in RecPoses : GestureEffect(pose)
    \/ \E a \in Detectors, pose \in RecPoses : DetInitOk(a, pose)
    \/ \E a \in Detectors : DetInitFail(a)
    \/ \E a \in Detectors, pose \in RecPoses : DetTick(a, pose)
    \/ TimeoutStop
    \/ \E i \in Detectors : RecorderOnStop(i)
    \/ Unmount

Spec == InitRec /\ [][Next]_vars

\* C6: the states delivered to the recording controller never contain a
\* second locked without an idle delivered between the two.
C6_IdleBetweenLocked ==
    [][~SecondLocked(lockedOpen, emitted')]_vars

\* C25: during one LiveRecorder session at most one MediaRecorder is
\* created and started, and a locked notification handled while the status
\* is recording never starts one.
C25_OneRecorder ==
    [][/\ Len(lr'.recorders) <= 1
       /\ lr.status = "recording" => Len(lr'.recorders) = Len(lr.recorders)]_vars

\* C26: for one started MediaRecorder, stop() is requested at most once and
\* onRecordingComplete is invoked at most once: its onstop handler runs
\* only for a requested stop, and a stopped recorder stays stopped.
C26_FinishedOnce ==
    [][\A i \in DOMAIN lr'.recorders :
          /\ lr'.stops[i] <= 1
          /\ lr'.recorders[i] = "recording" <=> lr'.stops[i] = 0
          /\ (i \in DOMAIN lr.recorders /\ lr.recorders[i] = "stopped") =>
                lr'.recorders[i] = "stopped"]_vars

\* C26 witness: the locked gesture stopped the recording while the timeout
\* of the recording status was pending, and the onstop handler has run.
C26_Witness ==
    /\ lr.recorders = <<"stopped">>
    /\ lr.stops = <<1>>
    /\ \E a \in Detectors : closure[a] = "recording" /\ det[a].pc = "stopped"

\* ------------------------------------- collection and key-moment analysis

\* The page has just loaded: no pose model, no detector, an empty buffer.
InitKin ==
    /\ InitDet
    /\ poseLandmarker = "null"

\* The number of postures in a buffer: maximal runs of equal landmarks.
Postures(buf) ==
    IF buf = <<>> THEN 0
    ELSE 1 + Cardinality({i \in 1..(Len(buf) - 1) :
                            buf[i].landmarks # buf[i + 1].landmarks})

\* The collection pass appends a detected frame; the playback time of a
\* processed frame is greater than the time of the frame before it.
PushFrame(landmarks) ==
    /\ keyMoments = NotAnalyzed
    /\ Len(poseData) < MaxFrames
    /\ IF poseData = <<>> THEN TRUE
       ELSE IF landmarks = poseData[Len(poseData)].landmarks THEN TRUE
       ELSE Postures(poseData) < MaxPostures
    /\ poseData' = Append(poseData, [time |-> Len(poseData) + 1, landmarks |-> landmarks])
    /\ UNCHANGED <<detVars, keyMoments, pass, loader, lookup, app>>

\* The completed buffer is handed to analyzeKinematics.
Analyze(duration) ==
    /\ keyMoments = NotAnalyzed
    /\ keyMoments' = AnalyzeKinematics(poseData, duration)
    /\ UNCHANGED <<detVars, poseData, pass, loader, lookup, app>>

NextKin ==
    \/ \E landmarks \in Shapes : PushFrame(landmarks)
    \/ \E duration \in Durations : Analyze(duration)

SpecKin == InitKin /\ [][NextKin]_vars

Analyzed == keyMoments # NotAnalyzed

\* The index of the frame of poseData with time t (times are distinct).
IndexOfTime(t) == CHOOSE i \in DOMAIN poseData : poseData[i].time = t

\* C9: for a buffer of fewer than 10 frames the result has exactly the four
\* entries, Toss Peak, Trophy Pose and Contact Point are absent, and Serve
\* Start is the first frame's time, or 0 for an empty buffer.
C9_ShortBuffer ==
    (Analyzed /\ Len(poseData) < 10) =>
        /\ DOMAIN keyMoments = KeyNames
        /\ keyMoments["Toss Peak"] = NullTime
        /\ keyMoments["Trophy Pose"] = NullTime
        /\ keyMoments["Contact Point"] = NullTime
        /\ keyMoments["Serve Start"] = IF poseData = <<>> THEN 0 ELSE poseData[1].time

\* C9 witness: a buffer of nine frames, among them a toss, a trophy and a
\* contact frame, was analyzed.
C9_Witness ==
    /\ Analyzed
    /\ Len(poseData) = 9
    /\ {poseData[i].landmarks : i \in DOMAIN poseData} = Shapes

\* C10: when Toss Peak, Trophy Pose and Contact Point are all present,
\* index of the Toss Peak frame <= index of the Trophy Pose frame <= index
\* of the Contact Point frame.
C10_Monotonic ==
    (/\ Analyzed
     /\ keyMoments["Toss Peak"] # NullTime
     /\ keyMoments["Trophy Pose"] # NullTime
     /\ keyMoments["Contact Point"] # NullTime)
        => /\ IndexOfTime(keyMoments["Toss Peak"]) <= IndexOfTime(keyMoments["Trophy Pose"])
           /\ IndexOfTime(keyMoments["Trophy Pose"]) <= IndexOfTime(keyMoments["Contact Point"])

\* C10 witness: all three are present, at three different frames, and a
\* trophy-pose frame precedes the toss peak.
C10_Witness ==
    /\ Analyzed
    /\ keyMoments["Toss Peak"] # NullTime
    /\ keyMoments["Contact Point"] # NullTime
    /\ keyMoments["Toss Peak"] < keyMoments["Trophy Pose"]
    /\ keyMoments["Trophy Pose"] < keyMoments["Contact Point"]
    /\ \E i \in DOMAIN poseData :
          /\ poseData[i].time < keyMoments["Toss Peak"]
          /\ IsTrophyPose(poseData[i])

\* The times of the frames of poseData.
FrameTimes == {poseData[i].time : i \in DOMAIN poseData}

\* C13 as stated: every timestamp of the result that is not absent is the
\* time of a frame of the buffer, for every buffer, empty ones included.
C13_NoFabrication ==
    Analyzed =>
        \A k \in KeyNames :
            keyMoments[k] # NullTime => keyMoments[k] \in FrameTimes

\* C13 amended: every timestamp of the result that is not absent is the
\* time of a frame of the buffer, except that the result for an empty
\* buffer has Serve Start = 0.
C13_NoFabricationNonEmpty ==
    Analyzed =>
        \A k \in KeyNames :
            keyMoments[k] # NullTime =>
                \/ keyMoments[k] \in FrameTimes
                \/ poseData = <<>> /\ k = "Serve Start" /\ keyMoments[k] = 0

\* C13 witness: a buffer of at least 10 frames was analyzed and all four
\* events are present.
C13_Witness ==
    /\ Analyzed
    /\ Len(poseData) >= 10
    /\ \A k \in KeyNames : keyMoments[k] # NullTime

\* The frames of poseData from the Trophy Pose frame on.
FromTrophyPose ==
    {i \in DOMAIN poseData : i >= IndexOfTime(keyMoments["Trophy Pose"])}

\* The frames of a range at which the wrist `joint` is highest (its
\* vertical coordinate smallest) over the range.
Highest(range, joint) ==
    {i \in range :
        \A j \in range :
            poseData[i].landmarks[joint][2] <= poseData[j].landmarks[joint][2]}

C20_TossFirstMinimum ==
    (Analyzed /\ Len(poseData) >= 10) =>
        \E i \in Highest(DOMAIN poseData, "lw") :
            /\ keyMoments["Toss Peak"] = poseData[i].time
            /\ \A j \in Highest(DOMAIN poseData, "lw") : j >= i

\* C20 witness: a buffer of at least 10 frames in which several frames
\* reach the smallest left-wrist coordinate, the first frame not among
\* them.
C20_Witness ==
    /\ Analyzed
    /\ Len(poseData) >= 10
    /\ Cardinality(Highest(DOMAIN poseData, "lw")) >= 2
    /\ 1 \notin Highest(DOMAIN poseData, "lw")

\* C30: the result of analyzeKinematics is the result it gives for the
\* same buffer with any other duration.
C30_DurationIgnored ==
    [][(~Analyzed /\ Analyzed') =>
          \A duration \in Durations :
              keyMoments' = AnalyzeKinematics(poseData, duration)]_vars

\* C30 witness: a result with events later than the smaller of the
\* durations.
C30_Witness ==
    /\ Analyzed
    /\ \E duration \in Durations :
          /\ keyMoments["Toss Peak"] > duration
          /\ keyMoments["Contact Point"] > keyMoments["Toss Peak"]

\* ------------------------------------------ frames with missing joints

\* The collection pass over a video whose frames have missing joints or a
\* degenerate arm.
NextSkip ==
    \/ \E landmarks \in SkipShapes : PushFrame(landmarks)
    \/ \E duration \in Durations : Analyze(duration)

SpecSkip == InitKin /\ [][NextSkip]_vars

\* The frames of poseData from the Toss Peak frame on.
FromTossPeak ==
    {i \in DOMAIN poseData : i >= IndexOfTime(keyMoments["Toss Peak"])}

\* C11: in every result, Toss Peak absent implies Trophy Pose and Contact
\* Point absent, and Trophy Pose absent implies Contact Point absent; and
\* in a buffer of at least 10 frames a trophy frame at or after the Toss
\* Peak frame is found (Trophy Pose is the time of the first of them) also
\* when frames with a missing joint or a zero-length arm vector precede it.
C11_AbsenceShortCircuits ==
    Analyzed =>
        /\ keyMoments["Toss Peak"] = NullTime =>
              /\ keyMoments["Trophy Pose"] = NullTime
              /\ keyMoments["Contact Point"] = NullTime
        /\ keyMoments["Trophy Pose"] = NullTime =>
              keyMoments["Contact Point"] = NullTime
        /\ (Len(poseData) >= 10 /\ keyMoments["Toss Peak"] # NullTime) =>
              \A i \in FromTossPeak :
                  (/\ poseData[i].landmarks = TrophyShape
                   /\ \A j \in FromTossPeak :
                         j < i => poseData[j].landmarks # TrophyShape)
                      => keyMoments["Trophy Pose"] = poseData[i].time

\* C11 witness: Toss Peak is at a frame with a zero-length arm vector, a
\* frame with missing joints follows it, and Trophy Pose is found after
\* both.
C11_Witness ==
    /\ Analyzed
    /\ keyMoments["Toss Peak"] # NullTime
    /\ keyMoments["Trophy Pose"] # NullTime
    /\ poseData[IndexOfTime(keyMoments["Toss Peak"])].landmarks = ZeroArmShape
    /\ \E j \in FromTossPeak :
          /\ poseData[j].landmarks = NoJointShape
          /\ poseData[j].time < keyMoments["Trophy Pose"]

\* ------------------------------------------------ the collection pass

\* What a collection step leaves alone besides the pose model.
passFrame == <<detectionFrameId, det, lr, closure, emitted, reported, tickDet,
               cancelSeen, obs, lockedOpen, keyMoments, loader, lookup, app>>

\* FileUpload calls processVideoForPose(video, canvas, setPoseProgress).
ProcessVideoForPose ==
    /\ pass.pc = "none"
    /\ pass' = [pass EXCEPT !.pc = "init"]
    /\ UNCHANGED <<poseLandmarker, poseData, passFrame>>

\* initializePoseLandmarker resolves and the canvas has a context: the
\* closure is set up, video.currentTime = 0, and either startProcessing
\* runs at once (readyState >= 4) or the canplaythrough and error handlers
\* are registered.
PassInitOk(ready, duration) ==
    /\ pass.pc = "init"
    /\ duration \in VideoDurations(ready)
    /\ poseLandmarker' = "ready"
    /\ poseData' = <<>>
    /\ pass' = [pass EXCEPT !.pc = IF ready THEN "starting" ELSE "loading",
                            !.duration = duration,
                            !.lastTime = -1,
                            !.currentTime = 0,
                            !.onerror = ~ready,
                            !.out = Quiet]
    /\ UNCHANGED passFrame

\* initializePoseLandmarker throws, or canvas.getContext returns null.
PassInitFail ==
    /\ pass.pc = "init"
    /\ pass' = [pass EXCEPT !.pc = "failed", !.promise = "rejected", !.out = Quiet]
    /\ UNCHANGED <<poseLandmarker, poseData, passFrame>>

\* canplaythrough: canPlayHandler calls startProcessing.
CanPlayThrough ==
    /\ pass.pc = "loading"
    /\ ~pass.error
    /\ pass' = [pass EXCEPT !.pc = "starting", !.out = Quiet]
    /\ UNCHANGED <<poseLandmarker, poseData, passFrame>>

\* video.play() resolves: processFrame runs for the first time.
PlayOk(body, landmarks) ==
    /\ pass.pc = "starting"
    /\ ~pass.error
    /\ LET playing == [pass EXCEPT !.pc = "scheduled", !.paused = FALSE]
       IN /\ pass' = Collect(playing, body)
          /\ poseData' = Pushed(playing, poseData, body, landmarks)
    /\ UNCHANGED <<poseLandmarker, passFrame>>

\* video.play() rejects.
PlayFail ==
    /\ pass.pc = "starting"
    /\ pass' = [pass EXCEPT !.pc = "failed",
                            !.promise = Settle(pass.promise, "rejected"),
                            !.out = Quiet]
    /\ UNCHANGED <<poseLandmarker, poseData, passFrame>>

\* The animation frame fires: processFrame.
ProcessFrame(body, landmarks) ==
    /\ pass.pc = "scheduled"
    /\ IF pass.paused \/ pass.ended
       THEN /\ pass' = Complete(pass, poseData)
            /\ poseData' = poseData
       ELSE /\ pass' = Collect(pass, body)
            /\ poseData' = Pushed(pass, poseData, body, landmarks)
    /\ UNCHANGED <<poseLandmarker, passFrame>>

\* Whether the video is playing.
Playing == pass.pc = "scheduled" /\ ~pass.paused /\ ~pass.ended

\* Playback advances by one tick; at the length of the video it ends.
Advance ==
    /\ Playing
    /\ ~pass.error
    /\ pass' = [pass EXCEPT !.currentTime = pass.currentTime + 1,
                            !.ended = (pass.currentTime + 1 = MaxTime),
                            !.out = Quiet]
    /\ UNCHANGED <<poseLandmarker, poseData, passFrame>>

\* The user pauses the video with its controls.
UserPause ==
    /\ Playing
    /\ pass' = [pass EXCEPT !.paused = TRUE, !.out = Quiet]
    /\ UNCHANGED <<poseLandmarker, poseData, passFrame>>

\* The user seeks with the controls of the video.
UserSeek(t) ==
    /\ Playing
    /\ ~pass.error
    /\ t # pass.currentTime
    /\ pass' = [pass EXCEPT !.currentTime = t, !.out = Quiet]
    /\ UNCHANGED <<poseLandmarker, poseData, passFrame>>

\* The video raises an error event: video.onerror rejects.
VideoError ==
    /\ pass.onerror
    /\ ~pass.error
    /\ pass.pc \in {"loading", "starting", "scheduled"}
    /\ ~pass.ended
    /\ pass' = [pass EXCEPT !.promise = Settle(pass.promise, "rejected"),
                            !.error = TRUE,
                            !.out = Quiet]
    /\ UNCHANGED <<poseLandmarker, poseData, passFrame>>

NextCol ==
    \/ ProcessVideoForPose
    \/ \E ready \in BOOLEAN : \E duration \in {MaxTime, Infinity, NaN} :
          PassInitOk(ready, duration)
    \/ PassInitFail
    \/ CanPlayThrough
    \/ \E body \in BOOLEAN : PlayOk(body, TossShape)
    \/ PlayFail
    \/ \E body \in BOOLEAN : ProcessFrame(body, TossShape)
    \/ Advance
    \/ UserPause
    \/ \E t \in 0..(MaxTime - 1) : UserSeek(t)
    \/ VideoError

SpecCol == InitKin /\ [][NextCol]_vars

\* A processFrame call that found the video playing.
FrameCallback(ps) == ps.out.ran /\ ~ps.out.completed

IsPrefix(a, b) == Len(a) <= Len(b) /\ SubSeq(b, 1, Len(a)) = a

Monotonic(buf) ==
    \A i, j \in DOMAIN buf : i < j => buf[i].time <= buf[j].time

\* C14: a frame callback makes at most one detect call, and one whose
\* video.currentTime is not greater than the last processed time makes no
\* detect call, appends nothing and reports no progress.
C14_OncePerFrame ==
    [][FrameCallback(pass') =>
          /\ pass'.out.detects <= 1
          /\ pass'.out.time <= pass'.out.lastBefore =>
                /\ pass'.out.detects = 0
                /\ poseData' = poseData
                /\ pass'.out.progress = <<>>]_vars

\* C14 witness: a frame callback saw a playback time not greater than the
\* time of a frame it had processed and pushed before.
C14_Witness ==
    /\ FrameCallback(pass)
    /\ pass.out.time <= pass.out.lastBefore
    /\ \E i \in DOMAIN poseData : poseData[i].time = pass.out.lastBefore

\* C15: during a collection pass the buffer only grows at its end, its
\* frame times never decrease, and a processed frame without a detected
\* body appends nothing.
C15_AppendOnlyMonotonic ==
    [][/\ pass.pc \in {"starting", "scheduled", "stopped"} =>
             IsPrefix(poseData, poseData')
       /\ Monotonic(poseData')
       /\ (pass'.out.detects = 1 /\ ~pass'.out.body) =>
             poseData' = poseData]_vars

\* C15 witness: after two frames were pushed, a later frame is processed
\* for which no body was detected.
C15_Witness ==
    /\ Len(poseData) >= 2
    /\ pass.out.detects = 1
    /\ ~pass.out.body
    /\ pass.out.time > poseData[Len(poseData)].time

\* C16: when the loop completes, the completing call reports progress 100
\* and 100 is the last value reported, whatever the frames before it
\* detected; and every processed frame reports progress at least once.
C16_ProgressReported ==
    /\ pass.out.completed => pass.out.progress = <<100>>
    /\ pass.pc = "stopped" => pass.lastProgress = <<100>>
    /\ pass.out.detects = 1 => Len(pass.out.progress) >= 1

\* C16 witness: the loop completed after processing frames, none of which
\* had a detected body.
C16_Witness ==
    /\ pass.pc = "stopped"
    /\ pass.out.completed
    /\ pass.lastTime >= 1
    /\ poseData = <<>>

\* C17: every value passed to setProgress is a percentage within [0,100].
C17_ProgressInRange ==
    \A i \in DOMAIN pass.out.progress :
        /\ pass.out.progress[i] # NaN
        /\ pass.out.progress[i] >= 0
        /\ pass.out.progress[i] <= 100

\* C18: once playback has started, a processFrame call that finds the
\* video paused or ended stops the loop; the promise is then resolved, by
\* the one resolve call made, with the buffer built so far (it has not
\* rejected), and afterwards no frame callback runs and no detect call is
\* made.
C18_StopsResolved ==
    [][/\ (pass.pc = "scheduled" /\ (pass.paused \/ pass.ended) /\ pass'.out.ran) =>
             pass'.pc = "stopped"
       /\ pass'.pc = "stopped" =>
             /\ pass'.promise = "resolved"
             /\ pass'.resolves = 1
             /\ pass'.result = poseData'
       /\ pass.pc = "stopped" =>
             /\ pass'.pc = "stopped"
             /\ ~pass'.out.ran
             /\ poseData' = poseData]_vars

\* ------------------------------------------ frames around the trophy test

NextEdge ==
    \/ \E landmarks \in EdgeShapes : PushFrame(landmarks)
    \/ \E duration \in Durations : Analyze(duration)

SpecEdge == InitKin /\ [][NextEdge]_vars

\* The frames from the Toss Peak frame on whose right elbow is between 80
\* and 130 degrees with the right wrist above the elbow.
TrophyFrames ==
    {i \in FromTossPeak : poseData[i].landmarks \in {TrophyShape, EdgeTrophyShape}}

\* C21: when Toss Peak is present, Trophy Pose is the time of the first
\* frame from the Toss Peak frame on (inclusive) whose right-elbow angle is
\* strictly between 80 and 130 degrees and whose right wrist is above the
\* right elbow, and it is absent when no frame from there on qualifies.
C21_TrophyFirstMatch ==
    (Analyzed /\ keyMoments["Toss Peak"] # NullTime) =>
        IF TrophyFrames = {}
        THEN keyMoments["Trophy Pose"] = NullTime
        ELSE \E i \in TrophyFrames :
                /\ keyMoments["Trophy Pose"] = poseData[i].time
                /\ \A j \in TrophyFrames : j >= i

\* C21 witness: a qualifying frame precedes the Toss Peak frame, and after
\* the Toss Peak comes a frame with too narrow an elbow before the frame
\* that is chosen.
C21_Witness ==
    /\ Analyzed
    /\ keyMoments["Toss Peak"] # NullTime
    /\ keyMoments["Trophy Pose"] # NullTime
    /\ poseData[1].landmarks = EdgeTrophyShape
    /\ \E i \in FromTossPeak :
          /\ poseData[i].landmarks = NarrowShape
          /\ poseData[i].time < keyMoments["Trophy Pose"]

\* ------------------------------------ callers of initializePoseLandmarker

loaderFrame == <<detectionFrameId, det, lr, closure, emitted, reported, tickDet,
                 cancelSeen, obs, lockedOpen, poseData, keyMoments, pass, lookup,
                 app>>

\* A collection pass or a gesture detector calls initializePoseLandmarker:
\* it returns at once when the model exists, else it awaits loadMediaPipe().
CallInit(c) ==
    /\ loader.call[c] \in {"idle", "returned", "threw"}
    /\ loader.created < MaxCallers + 1
    /\ loader' = IF poseLandmarker # "null"
                  THEN [loader EXCEPT !.call[c] = "returned"]
                  ELSE [LoadMediaPipe(loader) EXCEPT !.call[c] = "awaitLoad"]
    /\ UNCHANGED <<poseLandmarker, loaderFrame>>

\* The dynamic import resolves or rejects.
ImportSettles(ok) ==
    /\ loader.promise = "pending"
    /\ loader' = [loader EXCEPT !.promise = IF ok THEN "loaded" ELSE "rejected"]
    /\ UNCHANGED <<poseLandmarker, loaderFrame>>

\* await loadMediaPipe() continues: FilesetResolver.forVisionTasks is
\* called; a rejected import is thrown out of initializePoseLandmarker.
AfterLoad(c) ==
    /\ loader.call[c] = "awaitLoad"
    /\ loader.promise \in {"loaded", "rejected"}
    /\ loader' = [loader EXCEPT !.call[c] = IF loader.promise = "loaded"
                                            THEN "awaitFileset" ELSE "threw"]
    /\ UNCHANGED <<poseLandmarker, loaderFrame>>

\* forVisionTasks resolves (createFromOptions is called) or rejects.
AfterFileset(c, ok) ==
    /\ loader.call[c] = "awaitFileset"
    /\ loader' = [loader EXCEPT !.call[c] = IF ok THEN "awaitCreate" ELSE "threw"]
    /\ UNCHANGED <<poseLandmarker, loaderFrame>>

\* createFromOptions resolves with a new PoseLandmarker, which is assigned
\* to poseLandmarker, or rejects.
AfterCreate(c, ok) ==
    /\ loader.call[c] = "awaitCreate"
    /\ IF ok
       THEN /\ loader' = [loader EXCEPT !.call[c] = "returned",
                                         !.created = loader.created + 1]
            /\ poseLandmarker' = "ready"
       ELSE /\ loader' = [loader EXCEPT !.call[c] = "threw"]
            /\ poseLandmarker' = poseLandmarker
    /\ UNCHANGED loaderFrame

NextInit ==
    \/ \E c \in Callers : CallInit(c)
    \/ \E ok \in BOOLEAN : ImportSettles(ok)
    \/ \E c \in Callers : AfterLoad(c)
    \/ \E c \in Callers, ok \in BOOLEAN : AfterFileset(c, ok)
    \/ \E c \in Callers, ok \in BOOLEAN : AfterCreate(c, ok)

SpecInit == InitKin /\ [][NextInit]_vars

\* C23: at most one PoseLandmarker instance is ever created and the
\* MediaPipe module import is performed at most once.
C23_Singleton ==
    /\ loader.created <= 1
    /\ loader.imports <= 1

\* ------------------------------------------ looking up the closest frame

lookupFrame == <<detVars, poseData, keyMoments, pass, loader, app>>

\* The buffer of a completed pass is what the report and the prompt use.
BufferReady == pass.pc = "stopped" /\ pass.promise = "resolved"

\* analyzeServe: the landmarks of the frame closest to a key moment's time
\* go into the prompt.
KeyMomentFrame(time) ==
    /\ BufferReady
    /\ Len(poseData) > 0
    /\ lookup' = [site |-> "analyzeServe", time |-> time,
                   frame |-> ClosestFrame(poseData, time)]
    /\ UNCHANGED lookupFrame

\* AnalysisReport.handleTimestampClick(time): the pose of the frame closest
\* to the clicked timestamp is drawn.
HandleTimestampClick(time) ==
    /\ BufferReady
    /\ Len(poseData) > 0
    /\ lookup' = [site |-> "handleTimestampClick", time |-> time,
                   frame |-> ClosestFrame(poseData, time)]
    /\ UNCHANGED lookupFrame

NextLookup ==
    \/ NextCol
    \/ \E time \in 0..MaxTime : KeyMomentFrame(time)
    \/ \E time \in 0..MaxTime : HandleTimestampClick(time)

SpecLookup == InitKin /\ [][NextLookup]_vars

\* The frames of poseData as close to the time of the lookup as any.
Closest ==
    {i \in DOMAIN poseData :
        \A j \in DOMAIN poseData :
            Abs(poseData[i].time - lookup.time) <= Abs(poseData[j].time - lookup.time)}

\* C22: a lookup in a non-empty buffer returns a frame whose distance to
\* the query time is minimal over the buffer, and among the equally close
\* frames the earliest in buffer order.
C22_ClosestFirst ==
    lookup.site # "none" =>
        /\ lookup.frame \in Closest
        /\ \A i \in Closest : lookup.frame <= i

\* C22 witness: a timestamp click for a time that lies midway between two
\* frames of the buffer.
C22_Witness ==
    /\ lookup.site = "handleTimestampClick"
    /\ Cardinality(Closest) = 2

\* ------------------------------------------------- the handlers of the App

appFrame == <<detVars, poseData, keyMoments, pass, loader, lookup>>

\* FileUpload's onFileSelect: a picked or dropped file, or "null" from
\* handleRemoveVideo.
OnFileSelect(file) ==
    /\ app' = HandleFileSelect(app, file)
    /\ UNCHANGED appFrame

\* handleUrlChange(url)
HandleUrlChange(url) ==
    /\ app' = [app EXCEPT !.youtubeUrl = url,
                          !.videoFile = IF url # "" THEN "null" ELSE @,
                          !.analysisResult = "null", !.error = "null",
                          !.poseData = "null"]
    /\ UNCHANGED appFrame

\* handleAnalyze(inputType, newPoseData, keyMoments) up to its await: the
\* file branch starts analyzeServe(videoFile, ...), the url branch shows the
\* player for a URL that has a video id.
HandleAnalyze(inputType) ==
    /\ InFlight(app) < MaxRequests
    /\ LET cleared == [app EXCEPT !.error = "null", !.analysisResult = "null",
                                  !.chatHistory = <<>>]
       IN  app' =
             IF inputType = "file"
             THEN IF app.videoFile = "null"
                  THEN [cleared EXCEPT !.error = "message"]
                  ELSE [cleared EXCEPT !.poseData = "data", !.isLoading = TRUE,
                                       !.requests[app.videoFile] = @ + 1]
             ELSE IF app.youtubeUrl = ""
                  THEN [cleared EXCEPT !.error = "message"]
                  ELSE IF GetYouTubeId(app.youtubeUrl) # "null"
                       THEN [cleared EXCEPT !.videoFile = "null",
                                            !.youtubeVideoId = GetYouTubeId(app.youtubeUrl)]
                       ELSE [cleared EXCEPT !.error = "message"]
    /\ UNCHANGED appFrame

\* handleAnalyze after its await: analyzeServe(of, ...) resolved with the
\* report of that file, or rejected; finally isLoading is cleared.
AnalyzeServeSettles(of, ok) ==
    /\ app.requests[of] > 0
    /\ app' = IF ok
              THEN [app EXCEPT !.requests[of] = @ - 1, !.analysisResult = of,
                               !.chatHistory = <<>>, !.isLoading = FALSE]
              ELSE [app EXCEPT !.requests[of] = @ - 1, !.error = "message",
                               !.isLoading = FALSE]
    /\ UNCHANGED appFrame

\* handleConfirmUrlAnalysis up to its await.
HandleConfirmUrlAnalysis ==
    /\ app.youtubeUrl # ""
    /\ InFlight(app) < MaxRequests
    /\ app' = [app EXCEPT !.youtubeVideoId = "null", !.isLoading = TRUE,
                          !.error = "null", !.analysisResult = "null",
                          !.chatHistory = <<>>, !.requests["url"] = @ + 1]
    /\ UNCHANGED appFrame

\* handleConfirmUrlAnalysis after its await; finally the URL is cleared.
AnalyzeServeFromUrlSettles(ok) ==
    /\ app.requests["url"] > 0
    /\ app' = IF ok
              THEN [app EXCEPT !.requests["url"] = @ - 1, !.analysisResult = "url",
                               !.chatHistory = <<>>, !.isLoading = FALSE,
                               !.youtubeUrl = ""]
              ELSE [app EXCEPT !.requests["url"] = @ - 1, !.error = "message",
                               !.isLoading = FALSE, !.youtubeUrl = ""]
    /\ UNCHANGED appFrame

\* handleStartRecording
HandleStartRecording ==
    /\ app' = [app EXCEPT !.isRecording = TRUE]
    /\ UNCHANGED appFrame

\* handleCancelRecording
HandleCancelRecording ==
    /\ app' = [app EXCEPT !.isRecording = FALSE]
    /\ UNCHANGED appFrame

\* The mounted LiveRecorder starts a MediaRecorder whose onstop calls
\* onRecordingComplete.
RecorderStart ==
    /\ app.isRecording
    /\ app.recorders < MaxRecorders
    /\ app' = [app EXCEPT !.recorders = @ + 1]
    /\ UNCHANGED appFrame

\* recorder.onstop: handleRecordingComplete(file).
HandleRecordingComplete(file) ==
    /\ app.recorders > 0
    /\ app' = HandleFileSelect([app EXCEPT !.recorders = @ - 1,
                                           !.isRecording = FALSE], file)
    /\ UNCHANGED appFrame

\* handleSaveServe: the video, its report and its pose data go to the database.
HandleSaveServe ==
    /\ app.videoFile # "null"
    /\ app.analysisResult # "null"
    /\ app.poseData # "null"
    /\ Cardinality(app.serves) < MaxServes
    /\ app' = [app EXCEPT !.serves = @ \cup {[videoBlob |-> app.videoFile,
                                             analysisReport |-> app.analysisResult]}]
    /\ UNCHANGED appFrame

\* ServeHistory.handleDelete
HandleDelete(serve) ==
    /\ app.isHistoryOpen
    /\ serve \in app.serves
    /\ app' = [app EXCEPT !.serves = @ \ {serve}]
    /\ UNCHANGED appFrame

\* handleLoadServe(serve)
HandleLoadServe(serve) ==
    /\ app.isHistoryOpen
    /\ serve \in app.serves
    /\ app' = [app EXCEPT !.videoFile = serve.videoBlob,
                          !.analysisResult = serve.analysisReport,
                          !.poseData = "data", !.chatHistory = <<>>,
                          !.isHistoryOpen = FALSE, !.error = "null",
                          !.isLoading = FALSE, !.youtubeUrl = "",
                          !.youtubeVideoId = "null"]
    /\ UNCHANGED appFrame

\* handleReset
HandleReset ==
    /\ app' = [app EXCEPT !.videoFile = "null", !.youtubeUrl = "",
                          !.youtubeVideoId = "null", !.analysisResult = "null",
                          !.chatHistory = <<>>, !.error = "null",
                          !.isLoading = FALSE, !.poseData = "null"]
    /\ UNCHANGED appFrame

\* handleSendChatMessage(message) up to its await.
HandleSendChatMessage ==
    /\ app.analysisResult # "null"
    /\ app.asks < MaxAsks
    /\ Len(app.chatHistory) + app.asks + 2 <= MaxChat
    /\ app' = [app EXCEPT !.chatHistory = Append(@, "user"),
                          !.isChatLoading = TRUE, !.asks = @ + 1]
    /\ UNCHANGED appFrame

\* handleSendChatMessage after its await: the answer, or the error text, is
\* appended as a model message to the history of that moment.
AskFollowUpQuestionSettles ==
    /\ app.asks > 0
    /\ app' = [app EXCEPT !.chatHistory = Append(@, "model"),
                          !.isChatLoading = FALSE, !.asks = @ - 1]
    /\ UNCHANGED appFrame

\* Header.onShowHistory
ShowHistory ==
    /\ ~app.isHistoryOpen
    /\ app' = [app EXCEPT !.isHistoryOpen = TRUE]
    /\ UNCHANGED appFrame

\* ServeHistory.onClose
CloseHistory ==
    /\ app.isHistoryOpen
    /\ app' = [app EXCEPT !.isHistoryOpen = FALSE]
    /\ UNCHANGED appFrame

AllServes == [videoBlob : Files, analysisReport : Sources]

\* What happens without the user: awaited requests settle, recorders stop.
Settles ==
    \/ \E of \in Files, ok \in BOOLEAN : AnalyzeServeSettles(of, ok)
    \/ \E ok \in BOOLEAN : AnalyzeServeFromUrlSettles(ok)
    \/ \E file \in Files : HandleRecordingComplete(file)

\* The user can act on component c: renderContent mounts it and the
\* ServeHistory overlay does not cover it.
Mounted(c) == ~app.isHistoryOpen /\ RenderContent(app) = c

\* The user acts on what is rendered, with the controls FileUpload and the
\* chat form leave enabled; awaited requests settle and recorders stop at
\* any time (a MediaRecorder and its onstop outlive the LiveRecorder).
NextApp ==
    \/ Settles
    \/ AskFollowUpQuestionSettles
    \/ ShowHistory
    \/ CloseHistory
    \/ \E serve \in AllServes : HandleLoadServe(serve)
    \/ \E serve \in AllServes : HandleDelete(serve)
    \/ \E file \in Files :
          Mounted("FileUpload") /\ app.youtubeUrl = "" /\ OnFileSelect(file)
    \/ Mounted("FileUpload") /\ app.videoFile # "null" /\ OnFileSelect("null")
    \/ \E url \in Urls :
          Mounted("FileUpload") /\ app.videoFile = "null" /\ HandleUrlChange(url)
    \/ Mounted("FileUpload") /\ app.videoFile # "null" /\ HandleAnalyze("file")
    \/ /\ Mounted("FileUpload")
       /\ app.videoFile = "null" /\ app.youtubeUrl # ""
       /\ HandleAnalyze("url")
    \/ /\ Mounted("FileUpload")
       /\ app.videoFile = "null" /\ app.youtubeUrl = ""
       /\ HandleStartRecording
    \/ Mounted("LiveRecorder") /\ HandleCancelRecording
    \/ RenderContent(app) = "LiveRecorder" /\ RecorderStart
    \/ Mounted("YouTubePlayer") /\ HandleConfirmUrlAnalysis
    \/ /\ ~app.isHistoryOpen
       /\ RenderContent(app) \in {"error", "AnalysisReport", "YouTubePlayer"}
       /\ HandleReset
    \/ Mounted("AnalysisReport") /\ HandleSaveServe
    \/ Mounted("AnalysisReport") /\ ~app.isChatLoading /\ HandleSendChatMessage

SpecApp == InitKin /\ [][NextApp]_vars

\* The handlers that select an input, start or end an analysis, or end a
\* recording, called in any order with any argument.
NextHandlers ==
    \/ Settles
    \/ ShowHistory
    \/ \E serve \in AllServes : HandleLoadServe(serve)
    \/ \E file \in Files \cup {"null"} : OnFileSelect(file)
    \/ \E url \in Urls : HandleUrlChange(url)
    \/ \E inputType \in {"file", "url"} : HandleAnalyze(inputType)
    \/ HandleStartRecording
    \/ HandleCancelRecording
    \/ RecorderStart
    \/ HandleConfirmUrlAnalysis
    \/ HandleReset
    \/ HandleSaveServe

SpecHandlers == InitKin /\ [][NextHandlers]_vars

\* C29: after any sequence of App handlers, videoFile non-null and
\* youtubeUrl non-empty never hold at the same time.
C29_InputsExclusive ==
    ~(app.videoFile # "null" /\ app.youtubeUrl # "")

\* C29 witness: a file is selected while the analysis of a URL is awaited,
\* and the URL field, filled in when that analysis started, is empty.
C29_Witness ==
    /\ app.videoFile # "null"
    /\ app.requests["url"] > 0
    /\ app.youtubeUrl = ""

\* The video the App shows: the selected file, else the URL that was analysed.
Selected(a) == IF a.videoFile # "null" THEN a.videoFile ELSE "url"

\* C27: a report the App holds is the report of the currently selected
\* video, and error and analysisResult are never both set, also when the
\* selection changes while an analysis request is awaited.
C27_ReportOfSelection ==
    /\ app.analysisResult # "null" => app.analysisResult = Selected(app)
    /\ ~(app.error # "null" /\ app.analysisResult # "null")

\* A history of user and model messages in turn, a user message first.
Alternates(h) ==
    \A i \in DOMAIN h : h[i] = IF i % 2 = 1 THEN "user" ELSE "model"

\* C28: the chat history alternates user, model, user, model, starting with
\* a user message, also when the history is cleared while a follow-up
\* question is awaited.
C28_Alternates == Alternates(app.chatHistory)

====
